---- MODULE Spec2Model ----
(***************************************************************************)
(* Model of the hogwarts_verify lookup service (src/main.go).              *)
(*                                                                         *)
(* Two HTTP handlers share one database handle `db`: verifyHandler         *)
(* (GET /verify) and twilioVerifyHandler (POST /twilio/verify).  Both      *)
(* read the table `people` and append to the table `errors` via logError.  *)
(*                                                                         *)
(* Strings are sequences of one-character strings.  The fixed pieces of a  *)
(* format string (template text, XML tags, messages) are kept as one       *)
(* token each, so a rendered text is a sequence of tokens in which the     *)
(* interpolated data appears character by character.                       *)
(*                                                                         *)
(* Three specifications share the handlers' actions: Spec serves requests  *)
(* one after the other, CaseSpec starts with one or two requests in        *)
(* flight that are built field by field or meet a chosen table people,     *)
(* ConcSpec lets requests arrive while others are being handled.           *)
(***************************************************************************)
EXTENDS Integers, Sequences, FiniteSets, TLC

VARIABLES people, errors, tzLoaded, reqs

vars == <<people, errors, tzLoaded, reqs>>

----------------------------------------------------------------------------
(* Bounds of the model *)

\* number of requests served in one behaviour
MaxRequests == 2

----------------------------------------------------------------------------
(* Characters *)

DigitChars == {"0", "1", "2", "3", "4", "5", "6", "7", "8", "9"}

LowerChars == {"a", "b", "c", "d", "e", "f", "g", "h", "i", "j", "k", "l", "m",
               "n", "o", "p", "q", "r", "s", "t", "u", "v", "w", "x", "y", "z"}

UpperChars == {"A", "B", "C", "D", "E", "F", "G", "H", "I", "J", "K", "L", "M",
               "N", "O", "P", "Q", "R", "S", "T", "U", "V", "W", "X", "Y", "Z"}

\* the character class [a-zA-Z0-9] of the validation regexp
AlnumChars == DigitChars \cup LowerChars \cup UpperChars

\* printable ASCII, code 32 at index 1 (code 96 is written as a token)
AsciiTable ==
    <<" ", "!", "\"", "#", "$", "%", "&", "'", "(", ")", "*", "+", ",", "-", ".", "/",
      "0", "1", "2", "3", "4", "5", "6", "7", "8", "9", ":", ";", "<", "=", ">", "?",
      "@", "A", "B", "C", "D", "E", "F", "G", "H", "I", "J", "K", "L", "M", "N", "O",
      "P", "Q", "R", "S", "T", "U", "V", "W", "X", "Y", "Z", "[", "\\", "]", "^", "_",
      "<grave>", "a", "b", "c", "d", "e", "f", "g", "h", "i", "j", "k", "l", "m", "n", "o",
      "p", "q", "r", "s", "t", "u", "v", "w", "x", "y", "z", "{", "|", "}", "~">>

HexDigits == <<"0", "1", "2", "3", "4", "5", "6", "7", "8", "9",
               "a", "b", "c", "d", "e", "f">>

HexUpper == <<"0", "1", "2", "3", "4", "5", "6", "7", "8", "9",
              "A", "B", "C", "D", "E", "F">>

\* net/url ishex
ishex(c) == \E i \in 1..16 : HexDigits[i] = c \/ HexUpper[i] = c

\* net/url unhex
unhex(c) == (CHOOSE i \in 1..16 : HexDigits[i] = c \/ HexUpper[i] = c) - 1

\* the character of a byte value; tab and newline are the control
\* characters kept, every other byte outside printable ASCII is the token
\* "<byte>"
ByteChar(n) ==
    IF n >= 32 /\ n <= 126 THEN AsciiTable[n - 31]
    ELSE IF n = 9 THEN "\t"
    ELSE IF n = 10 THEN "\n"
    ELSE "<byte>"

Rep(c, n) == [i \in 1..n |-> c]

----------------------------------------------------------------------------
(* strings helpers *)

\* strings.HasPrefix(s, p)
HasPrefix(s, p) == Len(p) <= Len(s) /\ SubSeq(s, 1, Len(p)) = p

\* index of the first occurrence of character c in s, 0 when absent
IndexOf(s, c) ==
    IF \E i \in 1..Len(s) : s[i] = c
    THEN CHOOSE i \in 1..Len(s) : s[i] = c /\ \A j \in 1..(i - 1) : s[j] # c
    ELSE 0

\* strings.TrimPrefix(body, "?")
TrimPrefixQuestion(s) == IF Len(s) > 0 /\ s[1] = "?" THEN Tail(s) ELSE s

RECURSIVE RemoveSpaces(_)
\* strings.ReplaceAll(input, " ", "")
RemoveSpaces(s) ==
    IF s = <<>> THEN <<>>
    ELSE IF Head(s) = " " THEN RemoveSpaces(Tail(s))
    ELSE <<Head(s)>> \o RemoveSpaces(Tail(s))

----------------------------------------------------------------------------
(* net/url: QueryUnescape and ParseQuery, as used by r.ParseForm and by    *)
(* the nested `body` field                                                 *)

RECURSIVE QueryUnescapeOk(_)
\* whether every % of s is followed by two hex digits
QueryUnescapeOk(s) ==
    IF s = <<>> THEN TRUE
    ELSE IF Head(s) = "%"
         THEN /\ Len(s) >= 3
              /\ ishex(s[2])
              /\ ishex(s[3])
              /\ QueryUnescapeOk(SubSeq(s, 4, Len(s)))
         ELSE QueryUnescapeOk(Tail(s))

RECURSIVE QueryUnescape(_)
\* %XX becomes the byte, + becomes a space (when QueryUnescapeOk)
QueryUnescape(s) ==
    IF s = <<>> THEN <<>>
    ELSE IF Head(s) = "%" /\ Len(s) >= 3
         THEN <<ByteChar(16 * unhex(s[2]) + unhex(s[3]))>>
                  \o QueryUnescape(SubSeq(s, 4, Len(s)))
         ELSE IF Head(s) = "+" THEN <<" ">> \o QueryUnescape(Tail(s))
         ELSE <<Head(s)>> \o QueryUnescape(Tail(s))

\* strings.Cut(s, sep): the part before the first sep
CutBefore(s, sep) ==
    IF IndexOf(s, sep) = 0 THEN s ELSE SubSeq(s, 1, IndexOf(s, sep) - 1)

\* strings.Cut(s, sep): the part after the first sep
CutAfter(s, sep) ==
    IF IndexOf(s, sep) = 0 THEN <<>> ELSE SubSeq(s, IndexOf(s, sep) + 1, Len(s))

RECURSIVE ParseQuery(_)
\* url.ParseQuery: [values |-> sequence of <<key, value>> in order of
\* appearance, err |-> whether some pair holds a semicolon or could not be
\* unescaped]
ParseQuery(query) ==
    IF query = <<>> THEN [values |-> <<>>, err |-> FALSE]
    ELSE LET pair == CutBefore(query, "&")
             rest == ParseQuery(CutAfter(query, "&"))
             key == CutBefore(pair, "=")
             value == CutAfter(pair, "=")
         IN  IF pair = <<>> THEN rest
             ELSE IF IndexOf(pair, ";") # 0
                  THEN [values |-> rest.values, err |-> TRUE]
             ELSE IF ~QueryUnescapeOk(key) \/ ~QueryUnescapeOk(value)
                  THEN [values |-> rest.values, err |-> TRUE]
                  ELSE [values |-> <<<<QueryUnescape(key), QueryUnescape(value)>>>>
                                       \o rest.values,
                        err |-> rest.err]

\* url.Values.Get / r.PostFormValue: the first value of key, "" when absent
Get(values, key) ==
    IF \E i \in 1..Len(values) : values[i][1] = key
    THEN values[CHOOSE i \in 1..Len(values) :
                    /\ values[i][1] = key
                    /\ \A j \in 1..(i - 1) : values[j][1] # key][2]
    ELSE <<>>

----------------------------------------------------------------------------
(* Identifier validation *)

\* the length limit of both handlers
MaxIdLen == 50

\* regexp ^[a-zA-Z0-9]+$
IsAlnumString(s) == Len(s) >= 1 /\ \A i \in 1..Len(s) : s[i] \in AlnumChars

\* faulty variant of InvalidFormat: the length limit is forgotten
InvalidFormatNoLength(s) == ~IsAlnumString(s)

\* len(id) > 50 || !regexp.MustCompile(`^[a-zA-Z0-9]+$`).MatchString(id)
InvalidFormat(s) == Len(s) > MaxIdLen \/ ~IsAlnumString(s)

----------------------------------------------------------------------------
(* The table people and the two SELECT statements *)

Categories == {"student", "staff"}

\* the rows of people at start: "12" is a prefix of "12v", so that a LIKE
\* pattern can match one row exactly and another loosely
InitialPeople ==
    { [national_id |-> <<"1", "2">>,
       full_name   |-> <<"A", "n", "n">>,
       category    |-> "student",
       remark      |-> <<>>],
      [national_id |-> <<"1", "2", "v">>,
       full_name   |-> <<"B", "<", "o", ">", "b">>,
       category    |-> "staff",
       remark      |-> <<"<", "b", ">", "o", "k", "<", "/", "b", ">",
                         "<", "b", "r", ">", " ", "H", "R">>] }

\* WHERE national_id = ?
ExactRows(table, id) == {p \in table : p.national_id = id}

\* faulty variant of LikeRows: the pattern lacks its trailing %
LikeRowsNoWildcard(table, input) == {p \in table : p.national_id = input}

\* WHERE national_id LIKE ? with the argument input+"%" (input is
\* alphanumeric when the query runs, so it holds no wildcard itself)
LikeRows(table, input) == {p \in table : HasPrefix(p.national_id, input)}

\* the error text of a failed query (%v of a driver error)
StoreErrText == "driver: bad connection"

\* sql.ErrNoRows.Error()
NoRowsText == "sql: no rows in result set"

ErrText(err) == IF err = "ErrNoRows" THEN NoRowsText ELSE StoreErrText

NoRow == [national_id |-> <<>>, full_name |-> <<>>, category |-> "", remark |-> <<>>]

----------------------------------------------------------------------------
(* Rendering: web *)

RECURSIVE EscapeString(_)
\* html.EscapeString
EscapeString(s) ==
    IF s = <<>> THEN <<>>
    ELSE (CASE Head(s) = "&"  -> <<"&", "a", "m", "p", ";">>
            [] Head(s) = "<"  -> <<"&", "l", "t", ";">>
            [] Head(s) = ">"  -> <<"&", "g", "t", ";">>
            [] Head(s) = "\"" -> <<"&", "#", "3", "4", ";">>
            [] Head(s) = "'"  -> <<"&", "#", "3", "9", ";">>
            [] OTHER          -> <<Head(s)>>) \o EscapeString(Tail(s))

CourseList ==
    <<"<li>Introduction to Basic Psychology (One Hour Workshop)</li>",
      "<li>Introduction to Career Guidance (One Hour Workshop)</li>",
      "<li>Introduction to Basic Counselling (One Hour Workshop)</li>",
      "<li>Introduction to Basic IT (One Hour Workshop)</li>",
      "<li>Introduction to Basic Business Management (One Hour Workshop)</li>",
      "<li>Introduction to Basic Spoken English (One Hour Workshop)</li>",
      "<li>Introduction to Memory Boosting (One Hour Workshop)</li>",
      "<li>Introduction to Basic Personality Development (One Hour Workshop)</li>",
      "<li>Introduction to Entrepreneurship (One Hour Workshop)</li>",
      "<li>Introduction to Basic Body Language (One Hour Workshop)</li>",
      "<li>Introduction to Basic Counselling Skills (One Hour Workshop)</li>",
      "<li>Introduction to Basic Human Resource Management (One Hour Workshop)</li>",
      "<li>Introduction to Basic Teaching Methodologies (One Hour Workshop)</li>",
      "<li>Introduction to Basic Marketing Management (One Hour Workshop)</li>">>

\* the template of the branch category == "student"
StudentHTML(safeID, safeName) ==
    <<"<div style=...>", "<strong>ID:</strong> ">> \o safeID
        \o <<"<br>", "<strong>FULL NAME:</strong> ">> \o safeName
        \o <<"<br>", "<strong>COURSES COMPLETED:</strong><br>", "<ul>">>
        \o CourseList
        \o <<"</ul>", "<strong>APPROVED AND VERIFIED:</strong> YES", "</div>">>

\* the template of the else branch
StaffHTML(safeID, safeName, remark) ==
    <<"<div style=...>", "<strong>ID:</strong> ">> \o safeID
        \o <<"<br>", "<strong>FULL NAME:</strong> ">> \o safeName
        \o <<"<br>", "<strong>REMARKS:</strong><br>">> \o remark
        \o <<"</div>">>

\* faulty variant of HtmlResponse: the else branch interpolates the name
\* as stored
HtmlResponseRawStaffName(id, row) ==
    IF row.category = "student"
    THEN StudentHTML(EscapeString(id), EscapeString(row.full_name))
    ELSE StaffHTML(EscapeString(id), row.full_name, row.remark)

\* htmlResponse of verifyHandler
HtmlResponse(id, row) ==
    IF row.category = "student"
    THEN StudentHTML(EscapeString(id), EscapeString(row.full_name))
    ELSE StaffHTML(EscapeString(id), EscapeString(row.full_name), row.remark)

\* http.Error(w, msg, code): the message and a newline as text/plain
HttpError(msg, code) ==
    [status |-> code, ctype |-> "text/plain; charset=utf-8", body |-> <<msg, "\n">>]

\* w.Header().Set("Content-Type", ctype); w.Write(body): status 200
WriteOK(ctype, body) == [status |-> 200, ctype |-> ctype, body |-> body]

----------------------------------------------------------------------------
(* Rendering: telephony *)

\* faulty variant of charToWord: the entry of the upper-case V is missing
charToWordWithoutUpperV(c) ==
    CASE c = "0" -> "zero"
      [] c = "1" -> "one"
      [] c = "2" -> "two"
      [] c = "3" -> "three"
      [] c = "4" -> "four"
      [] c = "5" -> "five"
      [] c = "6" -> "six"
      [] c = "7" -> "seven"
      [] c = "8" -> "eight"
      [] c = "9" -> "nine"
      [] c = "v" -> "vee"
      [] OTHER   -> c

\* charToWord, and the character itself where the map has no entry
charToWord(c) ==
    CASE c = "0" -> "zero"
      [] c = "1" -> "one"
      [] c = "2" -> "two"
      [] c = "3" -> "three"
      [] c = "4" -> "four"
      [] c = "5" -> "five"
      [] c = "6" -> "six"
      [] c = "7" -> "seven"
      [] c = "8" -> "eight"
      [] c = "9" -> "nine"
      [] c = "v" -> "vee"
      [] c = "V" -> "vee"
      [] OTHER   -> c

RECURSIVE Join(_, _)
\* strings.Join(words, sep)
Join(words, sep) ==
    IF words = <<>> THEN <<>>
    ELSE IF Len(words) = 1 THEN <<words[1]>>
    ELSE <<words[1], sep>> \o Join(Tail(words), sep)

\* spokenInputStr: the digit-by-digit spoken form
SpokenInputStr(input) == Join([i \in 1..Len(input) |-> charToWord(input[i])], " ")

WhiteChars == {" ", "\t", "\n", "\r"}

RECURSIVE ReplaceBr(_)
\* strings.ReplaceAll(input, "<br>", ". ")
ReplaceBr(s) ==
    IF s = <<>> THEN <<>>
    ELSE IF HasPrefix(s, <<"<", "b", "r", ">">>)
         THEN <<".", " ">> \o ReplaceBr(SubSeq(s, 5, Len(s)))
         ELSE <<Head(s)>> \o ReplaceBr(Tail(s))

RECURSIVE RemoveTags(_)
\* regexp <[^>]+> replaced by "": a "<", at least one character that is
\* not ">", and the first ">" after them
RemoveTags(s) ==
    IF s = <<>> THEN <<>>
    ELSE IF Head(s) = "<" /\ IndexOf(Tail(s), ">") >= 2
         THEN RemoveTags(SubSeq(s, IndexOf(Tail(s), ">") + 2, Len(s)))
         ELSE <<Head(s)>> \o RemoveTags(Tail(s))

RECURSIVE TrimLeft(_)
TrimLeft(s) ==
    IF s # <<>> /\ Head(s) \in WhiteChars THEN TrimLeft(Tail(s)) ELSE s

RECURSIVE TrimRight(_)
TrimRight(s) ==
    IF s # <<>> /\ s[Len(s)] \in WhiteChars
    THEN TrimRight(SubSeq(s, 1, Len(s) - 1))
    ELSE s

\* strings.TrimSpace
TrimSpace(s) == TrimRight(TrimLeft(s))

RECURSIVE CollapseSpace(_)
\* regexp \s+ replaced by " "
CollapseSpace(s) ==
    IF s = <<>> THEN <<>>
    ELSE IF Head(s) \in WhiteChars
         THEN <<" ">> \o CollapseSpace(TrimLeft(s))
         ELSE <<Head(s)>> \o CollapseSpace(Tail(s))

\* stripHTML
stripHTML(input) == CollapseSpace(TrimSpace(RemoveTags(ReplaceBr(input))))

XmlDecl == "<?xml version=\"1.0\" encoding=\"UTF-8\"?>"

\* the TwiML of the validation failure
InvalidTwiml ==
    <<XmlDecl, "<Response>",
      "<Say>", "Invalid input format. Please use only numbers or letters.", "</Say>",
      "</Response>">>

\* categoryText
CategoryText(category) == IF category = "staff" THEN "staff member" ELSE "student"

\* the TwiML of a hit
MatchTwiml(input, row) ==
    <<XmlDecl, "<Response>", "<Say>", "You entered ">> \o SpokenInputStr(input)
        \o <<". The name is ">> \o row.full_name
        \o <<". The category is ", CategoryText(row.category), ". Remark: ">>
        \o stripHTML(row.remark)
        \o <<".", "</Say>", "</Response>">>

\* the TwiML of a miss
NoMatchTwiml(input) ==
    <<XmlDecl, "<Response>", "<Say>", "Sorry, no match found for ">>
        \o SpokenInputStr(input)
        \o <<".", "</Say>", "</Response>">>

----------------------------------------------------------------------------
(* Requests *)

kId == <<"i", "d">>
kDigits == <<"D", "i", "g", "i", "t", "s">>
kdigits == <<"d", "i", "g", "i", "t", "s">>
kSpeechResult == <<"S", "p", "e", "e", "c", "h", "R", "e", "s", "u", "l", "t">>
kspeechresult == <<"s", "p", "e", "e", "c", "h", "r", "e", "s", "u", "l", "t">>
kbody == <<"b", "o", "d", "y">>

\* key=value
Param(key, value) == key \o <<"=">> \o value

\* the raw query strings of GET /verify the model serves
WebRawQueries ==
    { <<>>,
      Param(kId, <<>>),
      Param(kId, <<"1", "2">>),
      Param(kId, <<"1", "2", "v">>),
      Param(kId, <<"1", "-", "2">>),
      Param(kId, Rep("1", MaxIdLen)),
      Param(kId, Rep("1", MaxIdLen + 1)) }

\* the form-encoded bodies of POST /twilio/verify the model serves
TwilioRawBodies ==
    { <<"%", "z", "z">>,
      <<>>,
      Param(kDigits, <<"1", "2">>),
      Param(kdigits, <<"1">>),
      Param(kDigits, <<"1", "-", "2">>),
      Param(kDigits, Rep("1", MaxIdLen + 1)),
      Param(kbody, <<"%", "2", "5", "z", "z">>),
      Param(kbody, <<"%", "3", "F">> \o kSpeechResult
                       \o <<"%", "3", "D", "+", "7">>) }

ReqIds == 1..MaxRequests

NoResp == [status |-> 0, ctype |-> "", body |-> <<>>]

IdleReq ==
    [chan |-> "none", raw |-> <<>>, pc |-> "idle", input |-> <<>>,
     branch |-> "", err |-> "", row |-> NoRow, toLog |-> <<>>,
     audits |-> <<>>, queries |-> <<>>, resp |-> NoResp]

\* the arguments of one logError call
LogCall(errorType, remark) == [error_type |-> errorType, remark |-> remark]

Init ==
    /\ people = InitialPeople
    /\ errors = <<>>
    /\ tzLoaded \in BOOLEAN
    /\ reqs = [r \in ReqIds |-> IdleReq]

\* net/http hands a request to its handler; this specification serves the
\* requests one after the other
Accept(r) ==
    /\ reqs[r].pc = "idle"
    /\ \A q \in ReqIds : q < r => reqs[q].pc \in {"done", "gone"}

\* the requests once r has arrived: a handler's locals are gone when it has
\* returned, and the model keeps them for the last finished request only
Admit(r, chan, raw) ==
    [q \in ReqIds |->
        IF q = r THEN [IdleReq EXCEPT !.chan = chan, !.raw = raw, !.pc = "extract"]
        ELSE IF q < r - 1 THEN [IdleReq EXCEPT !.pc = "gone"]
        ELSE reqs[q]]

ArriveWeb(r) ==
    /\ Accept(r)
    /\ \E raw \in WebRawQueries : reqs' = Admit(r, "web", raw)
    /\ UNCHANGED <<people, errors, tzLoaded>>

ArriveTwilio(r) ==
    /\ Accept(r)
    /\ \E raw \in TwilioRawBodies : reqs' = Admit(r, "twilio", raw)
    /\ UNCHANGED <<people, errors, tzLoaded>>

\* where the handler continues when the logError calls `rest` are still
\* ahead of the response
AfterLog(rest) == IF rest = <<>> THEN "respond" ELSE "log"

\* leave the handler's straight-line code for a branch that logs calls and
\* then writes the response of that branch
Branch(r, input, branch, calls) ==
    reqs' = [reqs EXCEPT ![r].input = input, ![r].branch = branch,
                         ![r].toLog = calls, ![r].pc = AfterLog(calls)]

----------------------------------------------------------------------------
(* logError *)

\* the remark inserted: prefixed when time.LoadLocation failed
InsertedRemark(tz, remark) ==
    IF tz THEN remark
    ELSE <<"Timezone error: ", "unknown time zone Europe/London", "; ">> \o remark

\* faulty variant of ExecInsert: the statement replaces the rows of the table
\* by the new row
ExecInsertReplacing(table, tz, call, ok) ==
    IF ok
    THEN <<[error_type |-> call.error_type,
            remark |-> InsertedRemark(tz, call.remark)]>>
    ELSE table

\* the table errors after db.Exec("INSERT INTO errors ..."), which either
\* appends the row or fails and leaves the table alone
ExecInsert(table, tz, call, ok) ==
    IF ok
    THEN Append(table, [error_type |-> call.error_type,
                        remark |-> InsertedRemark(tz, call.remark)])
    ELSE table

\* one call of logError by request r: the error of db.Exec is dropped
logError(r) ==
    /\ reqs[r].pc = "log"
    /\ reqs[r].toLog # <<>>
    /\ \E ok \in BOOLEAN :
           /\ errors' = ExecInsert(errors, tzLoaded, Head(reqs[r].toLog), ok)
           /\ reqs' = [reqs EXCEPT
                  ![r].audits = Append(@, [call |-> Head(reqs[r].toLog), ok |-> ok]),
                  ![r].toLog = Tail(@),
                  ![r].pc = AfterLog(Tail(reqs[r].toLog))]
    /\ UNCHANGED <<people, tzLoaded>>

----------------------------------------------------------------------------
(* verifyHandler: GET /verify *)

\* r.URL.Query().Get("id"): a parse error of the query string is dropped
QueryId(raw) == Get(ParseQuery(raw).values, kId)

\* the logError call of each branch of verifyHandler
VerifyCall(branch, id, err, row) ==
    CASE branch = "VERIFY_NO_ID" ->
            LogCall(branch, <<"No ID provided in query parameter">>)
      [] branch = "VERIFY_INVALID_ID" ->
            LogCall(branch, <<"Invalid ID format: ">> \o id)
      [] branch = "VERIFY_NOT_FOUND" ->
            LogCall(branch, <<"Person not found for ID: ">> \o id)
      [] branch = "VERIFY_DB_ERROR" ->
            LogCall(branch, <<"Database error for ID ">> \o id \o <<": ", ErrText(err)>>)
      [] branch = "VERIFY_SUCCESS" ->
            LogCall(branch, <<"Verified ID: ">> \o id
                                \o <<", Name: ">> \o row.full_name
                                \o <<", Category: ", row.category, ", Remark: ">>
                                \o row.remark)

\* faulty variant of VerifyResponse: the rejected id is echoed in the body
VerifyResponseEchoesId(branch, id, row) ==
    CASE branch = "VERIFY_NO_ID"      -> HttpError("ID is required", 400)
      [] branch = "VERIFY_INVALID_ID" ->
            [status |-> 400, ctype |-> "text/plain; charset=utf-8",
             body |-> <<"Invalid ID format: ">> \o id \o <<"\n">>]
      [] branch = "VERIFY_NOT_FOUND"  -> HttpError("Person not found", 404)
      [] branch = "VERIFY_DB_ERROR"   -> HttpError("Internal server error", 500)
      [] branch = "VERIFY_SUCCESS"    -> WriteOK("text/html", HtmlResponse(id, row))

\* faulty variant of VerifyResponse: the not-found branch answers with the
\* status of the internal error
VerifyResponseNotFoundAs500(branch, id, row) ==
    CASE branch = "VERIFY_NO_ID"      -> HttpError("ID is required", 400)
      [] branch = "VERIFY_INVALID_ID" -> HttpError("Invalid ID format", 400)
      [] branch = "VERIFY_NOT_FOUND"  -> HttpError("Person not found", 500)
      [] branch = "VERIFY_DB_ERROR"   -> HttpError("Internal server error", 500)
      [] branch = "VERIFY_SUCCESS"    -> WriteOK("text/html", HtmlResponse(id, row))

\* faulty variant of VerifyResponse: the internal error carries the text of
\* the driver's error
VerifyResponseLeaksError(branch, id, row) ==
    CASE branch = "VERIFY_NO_ID"      -> HttpError("ID is required", 400)
      [] branch = "VERIFY_INVALID_ID" -> HttpError("Invalid ID format", 400)
      [] branch = "VERIFY_NOT_FOUND"  -> HttpError("Person not found", 404)
      [] branch = "VERIFY_DB_ERROR"   ->
            [status |-> 500, ctype |-> "text/plain; charset=utf-8",
             body |-> <<"Internal server error", ": ", StoreErrText, "\n">>]
      [] branch = "VERIFY_SUCCESS"    -> WriteOK("text/html", HtmlResponse(id, row))

\* what each branch of verifyHandler writes to the client
VerifyResponse(branch, id, row) ==
    CASE branch = "VERIFY_NO_ID"      -> HttpError("ID is required", 400)
      [] branch = "VERIFY_INVALID_ID" -> HttpError("Invalid ID format", 400)
      [] branch = "VERIFY_NOT_FOUND"  -> HttpError("Person not found", 404)
      [] branch = "VERIFY_DB_ERROR"   -> HttpError("Internal server error", 500)
      [] branch = "VERIFY_SUCCESS"    -> WriteOK("text/html", HtmlResponse(id, row))

\* id := r.URL.Query().Get("id"); if id == "" { ... return }
VerifyExtract(r) ==
    /\ reqs[r].chan = "web"
    /\ reqs[r].pc = "extract"
    /\ LET id == QueryId(reqs[r].raw)
       IN  IF id = <<>>
           THEN Branch(r, id, "VERIFY_NO_ID",
                       <<VerifyCall("VERIFY_NO_ID", id, "", NoRow)>>)
           ELSE reqs' = [reqs EXCEPT ![r].input = id, ![r].pc = "validate"]
    /\ UNCHANGED <<people, errors, tzLoaded>>

\* faulty variant of VerifyValidate: id is a package-level variable, so a
\* handler that passes the format check hands its id to every web handler
\* that is between its own format check and its query
VerifyValidateSharedId(r) ==
    /\ reqs[r].chan = "web"
    /\ reqs[r].pc = "validate"
    /\ LET id == reqs[r].input
       IN  IF InvalidFormat(id)
           THEN Branch(r, id, "VERIFY_INVALID_ID",
                       <<VerifyCall("VERIFY_INVALID_ID", id, "", NoRow)>>)
           ELSE reqs' = [q \in ReqIds |->
                            IF q = r THEN [reqs[q] EXCEPT !.pc = "query"]
                            ELSE IF reqs[q].chan = "web" /\ reqs[q].pc = "query"
                            THEN [reqs[q] EXCEPT !.input = id]
                            ELSE reqs[q]]
    /\ UNCHANGED <<people, errors, tzLoaded>>

\* the format check before the query
VerifyValidate(r) ==
    /\ reqs[r].chan = "web"
    /\ reqs[r].pc = "validate"
    /\ LET id == reqs[r].input
       IN  IF InvalidFormat(id)
           THEN Branch(r, id, "VERIFY_INVALID_ID",
                       <<VerifyCall("VERIFY_INVALID_ID", id, "", NoRow)>>)
           ELSE reqs' = [reqs EXCEPT ![r].pc = "query"]
    /\ UNCHANGED <<people, errors, tzLoaded>>

\* faulty variant of VerifyBranch: sql.ErrNoRows is not told apart from
\* the other errors
VerifyBranchNoRowsAsError(err) ==
    IF err # "nil" THEN "VERIFY_DB_ERROR" ELSE "VERIFY_SUCCESS"

\* the branch taken on the error of QueryRow(...).Scan(...)
VerifyBranch(err) ==
    IF err = "ErrNoRows" THEN "VERIFY_NOT_FOUND"
    ELSE IF err # "nil" THEN "VERIFY_DB_ERROR"
    ELSE "VERIFY_SUCCESS"

\* the logError call after the query
VerifyCallsAfterQuery(id, err, row) == <<VerifyCall(VerifyBranch(err), id, err, row)>>

\* db.QueryRow(`... WHERE national_id = ? LIMIT 1`, id).Scan(...): the query
\* fails, or finds no row, or yields one of the rows that match
VerifyQuery(r) ==
    /\ reqs[r].chan = "web"
    /\ reqs[r].pc = "query"
    /\ LET id == reqs[r].input
           rows == ExactRows(people, id)
       IN  \E failed \in BOOLEAN : \E row \in rows \cup {NoRow} :
               /\ row = NoRow <=> (failed \/ rows = {})
               /\ LET err == IF failed THEN "other"
                             ELSE IF rows = {} THEN "ErrNoRows" ELSE "nil"
                  IN  reqs' = [reqs EXCEPT
                          ![r].err = err,
                          ![r].row = row,
                          ![r].queries = Append(@, [op |-> "=", arg |-> id]),
                          ![r].branch = VerifyBranch(err),
                          ![r].toLog = VerifyCallsAfterQuery(id, err, row),
                          ![r].pc = AfterLog(VerifyCallsAfterQuery(id, err, row))]
    /\ UNCHANGED <<people, errors, tzLoaded>>

\* faulty variant of VerifyRespond: a failed insert into errors turns the
\* response into an internal error
VerifyRespondAuditFailure(r) ==
    /\ reqs[r].chan = "web"
    /\ reqs[r].pc = "respond"
    /\ reqs' = [reqs EXCEPT
           ![r].resp =
               IF \E i \in 1..Len(reqs[r].audits) : ~reqs[r].audits[i].ok
               THEN HttpError("Internal server error", 500)
               ELSE VerifyResponse(reqs[r].branch, reqs[r].input, reqs[r].row),
           ![r].pc = "done"]
    /\ UNCHANGED <<people, errors, tzLoaded>>

\* http.Error(...) or w.Write(htmlResponse), after the branch's logError
VerifyRespond(r) ==
    /\ reqs[r].chan = "web"
    /\ reqs[r].pc = "respond"
    /\ reqs' = [reqs EXCEPT
           ![r].resp = VerifyResponse(reqs[r].branch, reqs[r].input, reqs[r].row),
           ![r].pc = "done"]
    /\ UNCHANGED <<people, errors, tzLoaded>>

----------------------------------------------------------------------------
(* twilioVerifyHandler: POST /twilio/verify *)

\* faulty variant of Probe: the lower-case speechresult is not probed
ProbeWithoutLowerSpeech(values) ==
    IF Get(values, kDigits) # <<>> THEN Get(values, kDigits)
    ELSE IF Get(values, kdigits) # <<>> THEN Get(values, kdigits)
    ELSE Get(values, kSpeechResult)

\* faulty variant of Probe: the speech fields are probed before the digit
\* fields
ProbeSpeechFirst(values) ==
    IF Get(values, kSpeechResult) # <<>> THEN Get(values, kSpeechResult)
    ELSE IF Get(values, kspeechresult) # <<>> THEN Get(values, kspeechresult)
    ELSE IF Get(values, kDigits) # <<>> THEN Get(values, kDigits)
    ELSE Get(values, kdigits)

\* the probe of the four field names, in the order of the code
Probe(values) ==
    IF Get(values, kDigits) # <<>> THEN Get(values, kDigits)
    ELSE IF Get(values, kdigits) # <<>> THEN Get(values, kdigits)
    ELSE IF Get(values, kSpeechResult) # <<>> THEN Get(values, kSpeechResult)
    ELSE Get(values, kspeechresult)

\* the extraction of twilioVerifyHandler up to `if input == ""`:
\* [branch |-> "" when an input was found, else the branch that returns,
\*  input |-> the value found]
ExtractInput(raw) ==
    LET form == ParseQuery(raw)
        direct == Probe(form.values)
        body == Get(form.values, kbody)
        parsed == ParseQuery(TrimPrefixQuestion(body))
        input == IF direct = <<>> /\ body # <<>> THEN Probe(parsed.values)
                 ELSE direct
    IN  IF form.err
        THEN [branch |-> "TWILIO_INVALID_FORM", input |-> <<>>]
        ELSE IF direct = <<>> /\ body # <<>> /\ parsed.err
        THEN [branch |-> "TWILIO_INVALID_BODY", input |-> <<>>]
        ELSE IF input = <<>>
        THEN [branch |-> "TWILIO_NO_INPUT", input |-> <<>>]
        ELSE [branch |-> "", input |-> input]

\* the text of a url.ParseQuery error
ParseErrText == "invalid URL escape"

\* the logError call of each branch of twilioVerifyHandler
TwilioCall(branch, input, err, row) ==
    CASE branch = "TWILIO_INVALID_FORM" ->
            LogCall(branch, <<"Failed to parse form data: ", ParseErrText>>)
      [] branch = "TWILIO_INVALID_BODY" ->
            LogCall(branch, <<"Failed to parse body parameter: ", ParseErrText>>)
      [] branch = "TWILIO_NO_INPUT" ->
            LogCall(branch, <<"No input provided in Digits or SpeechResult">>)
      [] branch = "TWILIO_INVALID_INPUT" ->
            LogCall(branch, <<"Invalid input format: ">> \o input)
      [] branch = "TWILIO_DB_ERROR" ->
            LogCall(branch, <<"Database error for input ">> \o input
                                \o <<": ", ErrText(err)>>)
      [] branch = "TWILIO_SUCCESS" ->
            LogCall(branch, <<"Verified input: ">> \o input
                                \o <<", Name: ">> \o row.full_name
                                \o <<", Category: ", CategoryText(row.category),
                                     ", Remark: ">>
                                \o stripHTML(row.remark))
      [] branch = "TWILIO_NO_MATCH" ->
            LogCall(branch, <<"No match found for input: ">> \o input)

\* faulty variant of TwilioResponse: the validation failure is answered
\* like the extraction failures, with http.Error
TwilioResponseInvalidAs400(branch, input, row) ==
    CASE branch = "TWILIO_INVALID_FORM"  -> HttpError("Invalid form data", 400)
      [] branch = "TWILIO_INVALID_BODY"  -> HttpError("Invalid body parameter", 400)
      [] branch = "TWILIO_NO_INPUT"      -> HttpError("No input provided", 400)
      [] branch = "TWILIO_INVALID_INPUT" -> HttpError("Invalid input format", 400)
      [] branch = "TWILIO_SUCCESS"       ->
            WriteOK("application/xml", MatchTwiml(input, row))
      [] branch = "TWILIO_NO_MATCH"      ->
            WriteOK("application/xml", NoMatchTwiml(input))

\* what each branch of twilioVerifyHandler writes to the client
TwilioResponse(branch, input, row) ==
    CASE branch = "TWILIO_INVALID_FORM"  -> HttpError("Invalid form data", 400)
      [] branch = "TWILIO_INVALID_BODY"  -> HttpError("Invalid body parameter", 400)
      [] branch = "TWILIO_NO_INPUT"      -> HttpError("No input provided", 400)
      [] branch = "TWILIO_INVALID_INPUT" -> WriteOK("application/xml", InvalidTwiml)
      [] branch = "TWILIO_SUCCESS"       ->
            WriteOK("application/xml", MatchTwiml(input, row))
      [] branch = "TWILIO_NO_MATCH"      ->
            WriteOK("application/xml", NoMatchTwiml(input))

\* r.ParseForm() and the extraction of the input
TwilioExtract(r) ==
    /\ reqs[r].chan = "twilio"
    /\ reqs[r].pc = "extract"
    /\ LET x == ExtractInput(reqs[r].raw)
       IN  IF x.branch # ""
           THEN Branch(r, x.input, x.branch,
                       <<TwilioCall(x.branch, x.input, "", NoRow)>>)
           ELSE reqs' = [reqs EXCEPT ![r].input = x.input, ![r].pc = "validate"]
    /\ UNCHANGED <<people, errors, tzLoaded>>

\* input = strings.ReplaceAll(input, " ", "") and the format check
TwilioValidate(r) ==
    /\ reqs[r].chan = "twilio"
    /\ reqs[r].pc = "validate"
    /\ LET input == RemoveSpaces(reqs[r].input)
       IN  IF InvalidFormat(input)
           THEN Branch(r, input, "TWILIO_INVALID_INPUT",
                       <<TwilioCall("TWILIO_INVALID_INPUT", input, "", NoRow)>>)
           ELSE reqs' = [reqs EXCEPT ![r].input = input, ![r].pc = "query"]
    /\ UNCHANGED <<people, errors, tzLoaded>>

\* the branch that writes the response: err == nil or not
TwilioBranch(err) == IF err = "nil" THEN "TWILIO_SUCCESS" ELSE "TWILIO_NO_MATCH"

\* faulty variant of TwilioCallsAfterQuery: the hit is not logged
TwilioCallsSilentSuccess(input, err, row) ==
    IF err # "nil"
    THEN <<TwilioCall("TWILIO_DB_ERROR", input, err, row),
           TwilioCall("TWILIO_NO_MATCH", input, err, row)>>
    ELSE <<>>

\* the logError calls after the query: TWILIO_DB_ERROR whenever err != nil,
\* then the call of the branch
TwilioCallsAfterQuery(input, err, row) ==
    (IF err # "nil" THEN <<TwilioCall("TWILIO_DB_ERROR", input, err, row)>> ELSE <<>>)
        \o <<TwilioCall(TwilioBranch(err), input, err, row)>>

\* db.QueryRow(`... WHERE national_id LIKE ? LIMIT 1`, input+"%").Scan(...):
\* the query fails, or finds no row, or yields one of the rows that match
\* (no ORDER BY: which one is up to the store)
TwilioQuery(r) ==
    /\ reqs[r].chan = "twilio"
    /\ reqs[r].pc = "query"
    /\ LET input == reqs[r].input
           rows == LikeRows(people, input)
       IN  \E failed \in BOOLEAN : \E row \in rows \cup {NoRow} :
               /\ row = NoRow <=> (failed \/ rows = {})
               /\ LET err == IF failed THEN "other"
                             ELSE IF rows = {} THEN "ErrNoRows" ELSE "nil"
                  IN  reqs' = [reqs EXCEPT
                          ![r].err = err,
                          ![r].row = row,
                          ![r].queries = Append(@, [op |-> "LIKE",
                                                    arg |-> input \o <<"%">>]),
                          ![r].branch = TwilioBranch(err),
                          ![r].toLog = TwilioCallsAfterQuery(input, err, row),
                          ![r].pc = AfterLog(TwilioCallsAfterQuery(input, err, row))]
    /\ UNCHANGED <<people, errors, tzLoaded>>

\* http.Error(...) or w.Write(twiml), after the branch's logError
TwilioRespond(r) ==
    /\ reqs[r].chan = "twilio"
    /\ reqs[r].pc = "respond"
    /\ reqs' = [reqs EXCEPT
           ![r].resp = TwilioResponse(reqs[r].branch, reqs[r].input, reqs[r].row),
           ![r].pc = "done"]
    /\ UNCHANGED <<people, errors, tzLoaded>>

----------------------------------------------------------------------------
(* The specification *)

Next ==
    \E r \in ReqIds :
        \/ ArriveWeb(r)
        \/ ArriveTwilio(r)
        \/ VerifyExtract(r)
        \/ VerifyValidate(r)
        \/ VerifyQuery(r)
        \/ VerifyRespond(r)
        \/ TwilioExtract(r)
        \/ TwilioValidate(r)
        \/ TwilioQuery(r)
        \/ TwilioRespond(r)
        \/ logError(r)

Spec == Init /\ [][Next]_vars

----------------------------------------------------------------------------
(* Requests built field by field, and requests in flight from the start *)

\* the four field names in the order the handler probes them
FieldKeys == <<kDigits, kdigits, kSpeechResult, kspeechresult>>

RECURSIVE QueryEscape(_)
\* url.QueryEscape, as the sender of a form applies it to keys and values
QueryEscape(s) ==
    IF s = <<>> THEN <<>>
    ELSE (IF Head(s) \in AlnumChars THEN <<Head(s)>>
          ELSE IF Head(s) = " " THEN <<"+">>
          ELSE IF Head(s) = "\t" THEN <<"%", "0", "9">>
          ELSE IF Head(s) = "\n" THEN <<"%", "0", "A">>
          ELSE LET code == 31 + CHOOSE i \in 1..Len(AsciiTable) :
                                     AsciiTable[i] = Head(s)
               IN  <<"%", HexUpper[(code \div 16) + 1], HexUpper[(code % 16) + 1]>>)
         \o QueryEscape(Tail(s))

RECURSIVE FormEncode(_)
\* the pairs <<key, value>> as an application/x-www-form-urlencoded text
FormEncode(pairs) ==
    IF pairs = <<>> THEN <<>>
    ELSE IF Len(pairs) = 1
         THEN Param(QueryEscape(pairs[1][1]), QueryEscape(pairs[1][2]))
         ELSE Param(QueryEscape(pairs[1][1]), QueryEscape(pairs[1][2]))
                  \o <<"&">> \o FormEncode(Tail(pairs))

RECURSIVE FieldPairs(_, _, _)
\* the pairs of the fields i..4: sel[k] tells whether field k is absent,
\* present and empty, or present with the value vals[k]
FieldPairs(sel, vals, i) ==
    IF i > Len(FieldKeys) THEN <<>>
    ELSE (IF sel[i] = "absent" THEN <<>>
          ELSE <<<<FieldKeys[i], IF sel[i] = "empty" THEN <<>> ELSE vals[i]>>>>)
         \o FieldPairs(sel, vals, i + 1)

\* the value each direct field carries when it is present and not empty
DirectValues == << <<"1">>, <<"2">>, <<"3">>, <<"4">> >>

\* the value each field of the nested body carries when it is present
NestedValues == << <<"5">>, <<"6">>, <<"7">>, <<"8">> >>

NoField == [i \in 1..4 |-> "absent"]

\* direct fields none of which carries a value
UnfilledDirect ==
    { NoField,
      [i \in 1..4 |-> "empty"],
      [i \in 1..4 |-> IF i % 2 = 1 THEN "absent" ELSE "empty"] }

\* the forms of a telephony request: which direct fields it has, whether it
\* has a body field (empty, unparseable, a query string, a query string
\* after a question mark) and which fields the nested query string has
FieldCases ==
    { [direct |-> d, body |-> b, nested |-> n] :
          d \in UnfilledDirect,
          b \in {"plain", "question"},
          n \in [1..4 -> {"absent", "value"}] }
    \cup
    { [direct |-> d, body |-> "empty", nested |-> NoField] : d \in UnfilledDirect }
    \cup
    { [direct |-> d, body |-> b, nested |-> NoField] :
          d \in [1..4 -> {"absent", "empty", "value"}],
          b \in {"none", "bad"} }
    \cup
    { [direct |-> d, body |-> "question", nested |-> [i \in 1..4 |-> "value"]] :
          d \in [1..4 -> {"absent", "empty", "value"}] }

\* the value of the body field of a form
BodyValue(c) ==
    CASE c.body = "empty"    -> <<>>
      [] c.body = "bad"      -> <<"%", "z", "z">>
      [] c.body = "plain"    -> FormEncode(FieldPairs(c.nested, NestedValues, 1))
      [] c.body = "question" ->
             <<"?">> \o FormEncode(FieldPairs(c.nested, NestedValues, 1))

\* the raw request body of a form
RawOfCase(c) ==
    FormEncode(FieldPairs(c.direct, DirectValues, 1)
                   \o (IF c.body = "none" THEN <<>> ELSE <<<<kbody, BodyValue(c)>>>>))

\* the raw body of each form
FieldRaws == [c \in FieldCases |-> RawOfCase(c)]

\* the values sent under one field name or its alias
AliasValues ==
    { <<"1", "2">>, <<"1", "2", "v">>, <<"9">>, <<"1", " ", "2">>, <<"a", "-", "b">> }

\* a value x sent under one field name only: under the name `upper` by the
\* first request and under its lower-case alias `lower` by the second,
\* either as a direct field or inside the nested body
AliasCases ==
    { [first  |-> FormEncode(<<<<k[1], x>>>>),
       second |-> FormEncode(<<<<k[2], x>>>>),
       value  |-> x] :
          k \in {<<kDigits, kdigits>>, <<kSpeechResult, kspeechresult>>},
          x \in AliasValues }
    \cup
    { [first  |-> FormEncode(<<<<kbody, <<"?">> \o FormEncode(<<<<k[1], x>>>>)>>>>),
       second |-> FormEncode(<<<<kbody, <<"?">> \o FormEncode(<<<<k[2], x>>>>)>>>>),
       value  |-> x] :
          k \in {<<kDigits, kdigits>>, <<kSpeechResult, kspeechresult>>},
          x \in AliasValues }

\* a request that net/http has handed to its handler
Started(chan, raw) == [IdleReq EXCEPT !.chan = chan, !.raw = raw, !.pc = "extract"]

\* the requests when those of `started` are in flight
InFlight(started) ==
    [q \in ReqIds |-> IF q <= Len(started) THEN started[q] ELSE IdleReq]

\* one telephony request with one of the forms is in flight
FieldInit ==
    /\ people = InitialPeople
    /\ \E c \in FieldCases : reqs = InFlight(<<Started("twilio", FieldRaws[c])>>)

\* two telephony requests that differ in the case of one field name are in
\* flight
AliasInit ==
    /\ people = InitialPeople
    /\ \E c \in AliasCases :
           reqs = InFlight(<<Started("twilio", c.first), Started("twilio", c.second)>>)

\* the identifiers read back digit by digit
SpokenInputs ==
    { <<"1", "2", "3", "v">>, <<"0", "4", "5", "6", "7", "8", "9", "V">>,
      <<"a", "Z">>, <<"1", "2">> }

\* the tables the identifiers are looked up in
SpokenStores ==
    { InitialPeople,
      {},
      { [national_id |-> <<"1", "2", "3", "v">>,
         full_name   |-> <<"C", "y">>,
         category    |-> "staff",
         remark      |-> <<>>] } }

\* a telephony request with one of the identifiers is in flight next to
\* another telephony request
SpokenInit ==
    /\ people \in SpokenStores
    /\ \E x \in SpokenInputs :
           reqs = InFlight(<<Started("twilio", FormEncode(<<<<kDigits, x>>>>)),
                             Started("twilio", FormEncode(<<<<kDigits, <<"9", "V">>>>>>))>>)

\* full names, with and without the characters html.EscapeString replaces
RenderNames ==
    { <<"<", "s", "c", "r", "i", "p", "t", ">">>,
      <<"a", "&", "b">>,
      <<"\"", "'">>,
      <<"A", "n", "n">> }

\* values of the column category: those of its ENUM, and the empty string
\* MySQL stores for a value outside the ENUM when it is not in strict mode
RenderCategories == {"student", "staff", ""}

\* the tables with the one row of identifier 7
RenderStores ==
    { { [national_id |-> <<"7">>,
         full_name   |-> n,
         category    |-> c,
         remark      |-> <<"<", "i", ">", "H", "R", "<", "/", "i", ">">>] } :
          n \in RenderNames, c \in RenderCategories }

\* GET /verify for the stored identifier, or for an identifier made of
\* markup
RenderQueries ==
    { FormEncode(<<<<kId, <<"7">>>>>>),
      FormEncode(<<<<kId, <<"<", "s", "c", "r", "i", "p", "t", ">">>>>>>) }

\* a web request and a telephony request for the one stored row are in
\* flight
RenderInit ==
    /\ people \in RenderStores
    /\ \E w \in RenderQueries :
           reqs = InFlight(<<Started("web", w),
                             Started("twilio", FormEncode(<<<<kDigits, <<"7">>>>>>))>>)

\* the identifier 12 with whitespace before, between and after its digits
WhiteValues ==
    { <<"1", " ", "2">>, <<" ", "1", "2", " ", " ">>, <<"1", "\t", "2">>,
      <<"1", "2", "\n">> }

\* a telephony request with the digits 12 and one with the same digits and
\* some whitespace are in flight
WhiteInit ==
    /\ people = InitialPeople
    /\ \E y \in WhiteValues :
           reqs = InFlight(<<Started("twilio", FormEncode(<<<<kDigits, <<"1", "2">>>>>>)),
                             Started("twilio", FormEncode(<<<<kDigits, y>>>>))>>)

CaseInit ==
    /\ errors = <<>>
    /\ tzLoaded \in BOOLEAN
    /\ \/ FieldInit
       \/ AliasInit
       \/ SpokenInit
       \/ RenderInit
       \/ WhiteInit

\* the handlers of the requests in flight run side by side, each in its
\* own goroutine
CaseNext ==
    \E r \in ReqIds :
        \/ VerifyExtract(r)
        \/ VerifyValidate(r)
        \/ VerifyQuery(r)
        \/ VerifyRespond(r)
        \/ TwilioExtract(r)
        \/ TwilioValidate(r)
        \/ TwilioQuery(r)
        \/ TwilioRespond(r)
        \/ logError(r)

CaseSpec == CaseInit /\ [][CaseNext]_vars

----------------------------------------------------------------------------
(* Requests that arrive while others are being handled: net/http runs each *)
(* handler in a goroutine of its own                                       *)

\* the raw query strings of the concurrent GET /verify requests
ConcWebQueries ==
    { Param(kId, <<"1", "2">>),
      Param(kId, <<"1", "2", "v">>) }

\* the raw bodies of the concurrent POST /twilio/verify requests
ConcTwilioBodies == { Param(kDigits, <<"1", "2">>) }

ConcInit ==
    /\ people = InitialPeople
    /\ errors = <<>>
    /\ tzLoaded \in BOOLEAN
    /\ reqs = [r \in ReqIds |-> IdleReq]

\* a GET /verify request arrives, whatever the other requests are doing
StartWeb(r) ==
    /\ reqs[r].pc = "idle"
    /\ \E raw \in ConcWebQueries : reqs' = [reqs EXCEPT ![r] = Started("web", raw)]
    /\ UNCHANGED <<people, errors, tzLoaded>>

\* a POST /twilio/verify request arrives, whatever the other requests are
\* doing
StartTwilio(r) ==
    /\ reqs[r].pc = "idle"
    /\ \E raw \in ConcTwilioBodies : reqs' = [reqs EXCEPT ![r] = Started("twilio", raw)]
    /\ UNCHANGED <<people, errors, tzLoaded>>

ConcNext ==
    \E r \in ReqIds :
        \/ StartWeb(r)
        \/ StartTwilio(r)
        \/ VerifyExtract(r)
        \/ VerifyValidate(r)
        \/ VerifyQuery(r)
        \/ VerifyRespond(r)
        \/ TwilioExtract(r)
        \/ TwilioValidate(r)
        \/ TwilioQuery(r)
        \/ TwilioRespond(r)
        \/ logError(r)

ConcSpec == ConcInit /\ [][ConcNext]_vars

----------------------------------------------------------------------------
(* Properties *)

Done(r) == reqs[r].pc = "done"

Web(r) == reqs[r].chan = "web"

Twilio(r) == reqs[r].chan = "twilio"

\* the id parameter of each raw query string
WebIdents == [raw \in WebRawQueries |-> QueryId(raw)]

\* what the telephony handler extracts from each raw body
TwilioExtracts == [raw \in TwilioRawBodies |-> ExtractInput(raw)]

\* the extracted input of each raw body, without its spaces
TwilioIdents == [raw \in TwilioRawBodies |-> RemoveSpaces(TwilioExtracts[raw].input)]

\* the identifier request r supplies: the id parameter on the web channel,
\* the extracted input without its spaces on the telephony channel
IdentOf(r) ==
    IF Web(r) THEN WebIdents[reqs[r].raw] ELSE TwilioIdents[reqs[r].raw]

\* longer than 50 characters, or some character outside [a-zA-Z0-9]
BadIdent(s) == Len(s) > 50 \/ \E i \in 1..Len(s) : s[i] \notin AlnumChars

\* a non-empty identifier of at most 50 characters, all of [a-zA-Z0-9]
GoodIdent(s) == s # <<>> /\ ~BadIdent(s)

\* s starts with p, character by character
StartsWith(s, p) == Len(p) <= Len(s) /\ \A i \in 1..Len(p) : s[i] = p[i]

\* sub occurs in s as a run of consecutive elements
Contains(s, sub) ==
    \E k \in 0..(Len(s) - Len(sub)) : \A i \in 1..Len(sub) : s[k + i] = sub[i]

\* the store answered the query of request r (it did not fail)
StoreWorked(r) == reqs[r].err \in {"nil", "ErrNoRows"}

\* the response of r is the spoken document that reports no match
SaysNoMatch(r) ==
    /\ reqs[r].resp.status = 200
    /\ reqs[r].resp.ctype = "application/xml"
    /\ \E i \in 1..Len(reqs[r].resp.body) :
           reqs[r].resp.body[i] = "Sorry, no match found for "

\* C1: on both channels a request whose identifier is longer than 50
\* characters or holds a character outside [a-zA-Z0-9] never queries the
\* store, at any point of its handling, and is rejected: status 400 on the
\* web channel, the invalid-format document on the telephony channel.
C1_InvalidNeverQueried ==
    \A r \in ReqIds :
        (reqs[r].chan # "none" /\ BadIdent(IdentOf(r))) =>
            /\ reqs[r].queries = <<>>
            /\ reqs[r].pc # "query"
            /\ (Done(r) /\ Web(r)) => reqs[r].resp.status = 400
            /\ (Done(r) /\ Twilio(r)) =>
                   /\ reqs[r].resp.ctype = "application/xml"
                   /\ \E i \in 1..Len(reqs[r].resp.body) :
                          reqs[r].resp.body[i] =
                              "Invalid input format. Please use only numbers or letters."

\* a web request with a disallowed character and a telephony request with
\* an over-long identifier have both been answered
C1_Witness ==
    \E r1, r2 \in ReqIds :
        /\ Done(r1) /\ Web(r1)
        /\ Len(IdentOf(r1)) <= 50 /\ BadIdent(IdentOf(r1))
        /\ Done(r2) /\ Twilio(r2)
        /\ Len(IdentOf(r2)) > 50

\* C2: every answered GET /verify request has exactly one of the statuses
\* 200, 400, 404, 500: 400 exactly when the id is missing, empty, longer
\* than 50 characters or not alphanumeric; 404 exactly when the id is valid
\* and the store answers with no row; 500 exactly when the id is valid and
\* the query fails otherwise; 200 exactly when the id is valid and the
\* store yields a row, which is then a stored record with exactly that id
\* and is sent as text/html; and a valid id of a stored record gets 200
\* whenever the query does not fail.
C2_WebStatus ==
    \A r \in ReqIds :
        (Done(r) /\ Web(r)) =>
            LET id == IdentOf(r)
                status == reqs[r].resp.status
            IN  /\ status \in {200, 400, 404, 500}
                /\ status = 400 <=> (id = <<>> \/ BadIdent(id))
                /\ status = 404 <=> (GoodIdent(id) /\ reqs[r].err = "ErrNoRows")
                /\ status = 500 <=> (GoodIdent(id) /\ reqs[r].err = "other")
                /\ status = 200 <=> (GoodIdent(id) /\ reqs[r].err = "nil")
                /\ status = 200 =>
                       /\ reqs[r].resp.ctype = "text/html"
                       /\ reqs[r].row \in people
                       /\ reqs[r].row.national_id = id
                /\ (GoodIdent(id) /\ StoreWorked(r)) =>
                       IF \E p \in people : p.national_id = id
                       THEN status = 200
                       ELSE status = 404

\* a hit and a store failure have both been answered on the web channel
C2_Witness ==
    \E r1, r2 \in ReqIds :
        /\ Done(r1) /\ Web(r1) /\ reqs[r1].resp.status = 200
        /\ Done(r2) /\ Web(r2) /\ reqs[r2].resp.status = 500

\* C3: a valid identifier that matches no stored record while the store
\* works gets 404 on the web channel and the no-match document on the
\* telephony channel, and never a 5xx status.
C3_AbsenceIsNotAnError ==
    \A r \in ReqIds :
        LET id == IdentOf(r)
        IN  (Done(r) /\ GoodIdent(id) /\ StoreWorked(r)) =>
                /\ (Web(r) /\ ~\E p \in people : p.national_id = id) =>
                       reqs[r].resp.status = 404
                /\ (Twilio(r) /\ ~\E p \in people : StartsWith(p.national_id, id)) =>
                       SaysNoMatch(r)
                /\ reqs[r].resp.status < 500

\* a miss has been answered on each channel with the store working
C3_Witness ==
    \E r1, r2 \in ReqIds :
        /\ Done(r1) /\ Web(r1) /\ GoodIdent(IdentOf(r1))
        /\ reqs[r1].err = "ErrNoRows"
        /\ Done(r2) /\ Twilio(r2) /\ GoodIdent(IdentOf(r2))
        /\ reqs[r2].err = "ErrNoRows"

\* the body of r's response is a spoken-response document
SpokenDocument(r) ==
    LET body == reqs[r].resp.body
    IN  /\ Len(body) >= 2
        /\ body[2] = "<Response>"
        /\ body[Len(body)] = "</Response>"

\* C4 as stated: every answered POST /twilio/verify request has status 200
\* and Content-Type application/xml and carries a spoken-response document.
C4_Original ==
    \A r \in ReqIds :
        (Done(r) /\ Twilio(r)) =>
            /\ reqs[r].resp.status = 200
            /\ reqs[r].resp.ctype = "application/xml"
            /\ SpokenDocument(r)

\* C4 amended: an answered POST /twilio/verify request from which an input
\* was extracted (invalid identifier, miss, hit, store failure) has status
\* 200, Content-Type application/xml and a spoken-response document; a
\* request whose form cannot be parsed, that holds no recognised input
\* field, or whose nested body field cannot be parsed has status 400 with a
\* text/plain message.
C4_TwilioStatus ==
    \A r \in ReqIds :
        (Done(r) /\ Twilio(r)) =>
            IF TwilioExtracts[reqs[r].raw].branch = ""
            THEN /\ reqs[r].resp.status = 200
                 /\ reqs[r].resp.ctype = "application/xml"
                 /\ SpokenDocument(r)
            ELSE /\ reqs[r].resp.status = 400
                 /\ reqs[r].resp.ctype = "text/plain; charset=utf-8"
                 /\ ~SpokenDocument(r)

\* an invalid identifier has been answered with a document and a request
\* without any input field with status 400
C4_Witness ==
    \E r1, r2 \in ReqIds :
        /\ Done(r1) /\ Twilio(r1)
        /\ TwilioExtracts[reqs[r1].raw].branch = ""
        /\ BadIdent(IdentOf(r1))
        /\ reqs[r1].resp.status = 200
        /\ Done(r2) /\ Twilio(r2)
        /\ TwilioExtracts[reqs[r2].raw].branch = "TWILIO_NO_INPUT"
        /\ reqs[r2].resp.status = 400

\* C5: every spoken-response document of twilioVerifyHandler holds at least
\* one Say element and ends with a hangup directive as the last element of
\* the response.
C5_SayAndHangup ==
    \A r \in ReqIds :
        (Done(r) /\ Twilio(r) /\ SpokenDocument(r)) =>
            LET body == reqs[r].resp.body
            IN  /\ \E i \in 1..Len(body) : body[i] = "<Say>"
                /\ body[Len(body) - 1] = "<Hangup/>"

\* the fixed messages of http.Error in verifyHandler
WebErrorBodies ==
    { <<"ID is required", "\n">>, <<"Invalid ID format", "\n">>,
      <<"Person not found", "\n">>, <<"Internal server error", "\n">> }

CallsOf(r) == [i \in 1..Len(reqs[r].audits) |-> reqs[r].audits[i].call]

\* C7: two answered requests with the same channel, the same raw request
\* and the same answer of the person store get the same response (status,
\* content type, body) and make the same logError calls, whichever of
\* their inserts into errors failed; and no request makes the same
\* logError call twice, so a failed insert is never tried again.
C7_ResponseIgnoresAudit ==
    /\ \A r1, r2 \in ReqIds :
           ( /\ Done(r1) /\ Done(r2)
             /\ reqs[r1].chan = reqs[r2].chan
             /\ reqs[r1].raw = reqs[r2].raw
             /\ reqs[r1].err = reqs[r2].err
             /\ reqs[r1].row = reqs[r2].row ) =>
               /\ reqs[r1].resp = reqs[r2].resp
               /\ CallsOf(r1) = CallsOf(r2)
    /\ \A r \in ReqIds :
           \A i, j \in 1..Len(reqs[r].audits) :
               i < j => reqs[r].audits[i].call # reqs[r].audits[j].call

\* the same web request with the same store answer has been answered
\* twice, once with its insert into errors done and once with it failed
C7_Witness ==
    \E r1, r2 \in ReqIds :
        /\ Done(r1) /\ Done(r2)
        /\ Web(r1) /\ Web(r2)
        /\ reqs[r1].raw = reqs[r2].raw
        /\ reqs[r1].err = reqs[r2].err
        /\ reqs[r1].row = reqs[r2].row
        /\ \A i \in 1..Len(reqs[r1].audits) : reqs[r1].audits[i].ok
        /\ \E i \in 1..Len(reqs[r2].audits) : ~reqs[r2].audits[i].ok

\* request r supplied an identifier that its handler extracted
IdentExtracted(r) ==
    IF Web(r) THEN WebIdents[reqs[r].raw] # <<>>
    ELSE TwilioExtracts[reqs[r].raw].branch = ""

\* C8: when a request's response has been produced, on either channel and
\* for every outcome, the request has made at least one logError call and
\* none is still ahead; and if an identifier was extracted, one of the
\* calls made carries that identifier in its remark.
C8_AuditBeforeResponse ==
    \A r \in ReqIds :
        (reqs[r].resp # NoResp) =>
            /\ Len(reqs[r].audits) >= 1
            /\ reqs[r].toLog = <<>>
            /\ IdentExtracted(r) =>
                   \E i \in 1..Len(reqs[r].audits) :
                       Contains(reqs[r].audits[i].call.remark, IdentOf(r))

\* a telephony hit and a telephony request without any input have both
\* been answered
C8_Witness ==
    \E r1, r2 \in ReqIds :
        /\ Done(r1) /\ Twilio(r1) /\ reqs[r1].err = "nil"
        /\ IdentOf(r1) # <<>>
        /\ Done(r2) /\ Twilio(r2) /\ ~IdentExtracted(r2)

\* C9: whenever the store holds a record whose identifier equals the
\* normalized telephony input exactly, a telephony hit resolves to that
\* record; a record with another identifier is used only when no exact
\* match exists.
C9_ExactMatchFirst ==
    \A r \in ReqIds :
        (Done(r) /\ Twilio(r) /\ reqs[r].err = "nil") =>
            ((\E p \in people : p.national_id = IdentOf(r)) =>
                 reqs[r].row.national_id = IdentOf(r))

\* the response of r is the spoken document of a hit on record p
SaysMatch(r, p) ==
    /\ reqs[r].resp.status = 200
    /\ reqs[r].resp.ctype = "application/xml"
    /\ Contains(reqs[r].resp.body, <<". The name is ">> \o p.full_name
                                       \o <<". The category is ">>)

\* C10: for a valid normalized telephony identifier and a working store:
\* if some stored identifier starts with it, the lookup is a hit and the
\* record spoken back is a stored record whose identifier starts with it;
\* if none does, the response is the no-match document.
C10_PrefixMatch ==
    \A r \in ReqIds :
        LET id == IdentOf(r)
        IN  (Done(r) /\ Twilio(r) /\ IdentExtracted(r) /\ GoodIdent(id)
                 /\ StoreWorked(r)) =>
                IF \E p \in people : StartsWith(p.national_id, id)
                THEN /\ reqs[r].row \in people
                     /\ StartsWith(reqs[r].row.national_id, id)
                     /\ SaysMatch(r, reqs[r].row)
                     /\ ~SaysNoMatch(r)
                ELSE SaysNoMatch(r)

\* a telephony hit on a record whose identifier is longer than the input,
\* and a telephony miss, have both been answered
C10_Witness ==
    \E r1, r2 \in ReqIds :
        /\ Done(r1) /\ Twilio(r1) /\ reqs[r1].err = "nil"
        /\ reqs[r1].row.national_id # IdentOf(r1)
        /\ ~\E p \in people : p.national_id = IdentOf(r1)
        /\ Done(r2) /\ Twilio(r2) /\ GoodIdent(IdentOf(r2))
        /\ reqs[r2].err = "ErrNoRows"

\* the extraction step of request r is over
Extracted(r) == reqs[r].chan # "none" /\ reqs[r].pc # "extract"

\* the branches of twilioVerifyHandler that return before an input exists
ExtractionFailures == {"TWILIO_INVALID_FORM", "TWILIO_INVALID_BODY", "TWILIO_NO_INPUT"}

\* C11: when one telephony request supplies a value x only under
\* SpeechResult (or only under Digits) and another supplies the same x only
\* under speechresult (or only under digits), directly or in the nested
\* body, both extract x; and once both are answered they have the same
\* identifier, have sent the same query to the store, and for the same
\* answer of the store have the same response and the same logError calls.
C11_AliasesAgree ==
    \A c \in AliasCases :
        (reqs[1].raw = c.first /\ reqs[2].raw = c.second) =>
            /\ \A r \in {1, 2} :
                   /\ Extracted(r) => reqs[r].branch \notin ExtractionFailures
                   /\ reqs[r].pc = "validate" => reqs[r].input = c.value
            /\ (Done(1) /\ Done(2)) =>
                   /\ reqs[1].input = reqs[2].input
                   /\ reqs[1].queries = reqs[2].queries
                   /\ (reqs[1].err = reqs[2].err /\ reqs[1].row = reqs[2].row) =>
                          /\ reqs[1].resp = reqs[2].resp
                          /\ CallsOf(1) = CallsOf(2)

\* SpeechResult=12 and speechresult=12 have both been answered with a hit
\* on the same record
C11_Witness ==
    /\ reqs[1].raw = Param(kSpeechResult, <<"1", "2">>)
    /\ reqs[2].raw = Param(kspeechresult, <<"1", "2">>)
    /\ Done(1) /\ Done(2)
    /\ reqs[1].err = "nil" /\ reqs[2].err = "nil"
    /\ reqs[1].row = reqs[2].row
    /\ reqs[1].resp = reqs[2].resp

DigitSeq == <<"0", "1", "2", "3", "4", "5", "6", "7", "8", "9">>

DigitWords == <<"zero", "one", "two", "three", "four", "five", "six", "seven",
                "eight", "nine">>

\* the spoken word of a character: the name of a digit, "vee" for v and V,
\* the character itself otherwise
WordOf(c) ==
    IF c \in DigitChars THEN DigitWords[CHOOSE i \in 1..10 : DigitSeq[i] = c]
    ELSE IF c \in {"v", "V"} THEN "vee"
    ELSE c

\* the words of the characters of id in their order, one space between two
WordsOf(id) ==
    [k \in 1..(2 * Len(id) - 1) |-> IF k % 2 = 1 THEN WordOf(id[(k + 1) \div 2]) ELSE " "]

\* the response of r reads an identifier back: a hit or a miss
ReadsBack(r) ==
    /\ Done(r) /\ Twilio(r)
    /\ Len(reqs[r].resp.body) >= 4
    /\ reqs[r].resp.body[4] \in {"You entered ", "Sorry, no match found for "}

\* C12: every telephony response that reads the identifier back (hit or
\* miss) holds, right after its opening words, the words of the
\* identifier's characters in their order joined by single spaces (digits
\* by name, v and V as "vee", other characters as they are), whatever the
\* store holds and whatever other request is handled; "123v" is read as
\* "one two three vee".
C12_SpokenForm ==
    \A r \in ReqIds :
        ReadsBack(r) =>
            LET id == reqs[r].input
                body == reqs[r].resp.body
            IN  /\ Len(body) >= 4 + Len(WordsOf(id)) + 1
                /\ SubSeq(body, 5, 4 + Len(WordsOf(id))) = WordsOf(id)
                /\ body[5 + Len(WordsOf(id))] \in {". The name is ", "."}
                /\ id = <<"1", "2", "3", "v">> =>
                       SubSeq(body, 5, 11) = <<"one", " ", "two", " ", "three", " ", "vee">>

\* the identifier 123v has been read back in a hit while the other request
\* in flight read back 9V
C12_Witness ==
    /\ ReadsBack(1) /\ ReadsBack(2)
    /\ reqs[1].input = <<"1", "2", "3", "v">>
    /\ reqs[1].err = "nil"
    /\ reqs[2].input = <<"9", "V">>

\* the characters html escaping replaces
MarkupChars == {"<", ">", "&", "\"", "'"}

\* the escaped forms of the characters of MarkupChars
Entities ==
    { <<"&", "a", "m", "p", ";">>, <<"&", "l", "t", ";">>, <<"&", "g", "t", ";">>,
      <<"&", "#", "3", "4", ";">>, <<"&", "#", "3", "9", ";">> }

\* text holds no character of MarkupChars except the & that opens one of
\* the entities
OnlyEscaped(text) ==
    \A i \in 1..Len(text) :
        /\ text[i] \notin {"<", ">", "\"", "'"}
        /\ text[i] = "&" =>
               \E e \in Entities :
                   /\ i + Len(e) - 1 <= Len(text)
                   /\ SubSeq(text, i, i + Len(e) - 1) = e

RECURSIVE Unescaped(_)
\* text with its entities replaced by the characters they stand for
Unescaped(text) ==
    IF text = <<>> THEN <<>>
    ELSE IF Head(text) # "&" THEN <<Head(text)>> \o Unescaped(Tail(text))
    ELSE IF HasPrefix(text, <<"&", "a", "m", "p", ";">>)
         THEN <<"&">> \o Unescaped(SubSeq(text, 6, Len(text)))
    ELSE IF HasPrefix(text, <<"&", "l", "t", ";">>)
         THEN <<"<">> \o Unescaped(SubSeq(text, 5, Len(text)))
    ELSE IF HasPrefix(text, <<"&", "g", "t", ";">>)
         THEN <<">">> \o Unescaped(SubSeq(text, 5, Len(text)))
    ELSE IF HasPrefix(text, <<"&", "#", "3", "4", ";">>)
         THEN <<"\"">> \o Unescaped(SubSeq(text, 6, Len(text)))
    ELSE IF HasPrefix(text, <<"&", "#", "3", "9", ";">>)
         THEN <<"'">> \o Unescaped(SubSeq(text, 6, Len(text)))
    ELSE <<Head(text)>> \o Unescaped(Tail(text))

\* the position of the first element of s equal to token e
PosOf(s, e) == CHOOSE i \in 1..Len(s) : s[i] = e /\ \A j \in 1..(i - 1) : s[j] # e

\* what the body holds between the label and the next <br>
FieldAfter(body, label) ==
    LET rest == SubSeq(body, PosOf(body, label) + 1, Len(body))
    IN  SubSeq(rest, 1, PosOf(rest, "<br>") - 1)

\* request r is a GET /verify answered with the fragment of a hit
WebHit(r) == Done(r) /\ Web(r) /\ reqs[r].resp.status = 200

\* C13: in the fragment of every hit of GET /verify, student template or
\* not, the text after the ID label and the text after the FULL NAME label
\* hold none of < > " ' and no & but the one opening an entity, they stand
\* for the requested identifier and the stored full name, and a stored name
\* that holds one of these characters occurs nowhere in the body as stored;
\* a request whose identifier holds markup is answered without that
\* identifier in the body.
C13_NameAndIdEscaped ==
    \A r \in ReqIds :
        /\ WebHit(r) =>
               LET body == reqs[r].resp.body
                   idText == FieldAfter(body, "<strong>ID:</strong> ")
                   nameText == FieldAfter(body, "<strong>FULL NAME:</strong> ")
                   name == reqs[r].row.full_name
               IN  /\ OnlyEscaped(idText)
                   /\ OnlyEscaped(nameText)
                   /\ Unescaped(idText) = reqs[r].input
                   /\ Unescaped(nameText) = name
                   /\ (\E i \in 1..Len(name) : name[i] \in MarkupChars) =>
                          ~Contains(body, name)
        /\ (Done(r) /\ Web(r) /\ \E i \in 1..Len(reqs[r].input) :
                                     reqs[r].input[i] \in MarkupChars) =>
               /\ reqs[r].resp.status # 200
               /\ ~Contains(reqs[r].resp.body, reqs[r].input)

\* a hit on a record named <script> has been rendered with the template of
\* a student
C13_Witness ==
    \E r \in ReqIds :
        /\ WebHit(r)
        /\ reqs[r].row.category = "student"
        /\ reqs[r].row.full_name = <<"<", "s", "c", "r", "i", "p", "t", ">">>
        /\ Contains(reqs[r].resp.body, <<"&", "l", "t", ";", "s", "c", "r", "i", "p", "t",
                                         "&", "g", "t", ";">>)

\* the texts of the errors the store hands to the handlers
ErrorTexts == {"driver: bad connection", "sql: no rows in result set"}

\* no element of the response body of r is an error text of the store
NoErrorDetail(r) ==
    \A i \in 1..Len(reqs[r].resp.body) : reqs[r].resp.body[i] \notin ErrorTexts

\* request r called logError with the event kind and a remark that holds
\* the text
Logged(r, kind, text) ==
    \E i \in 1..Len(reqs[r].audits) :
        /\ reqs[r].audits[i].call.error_type = kind
        /\ Contains(reqs[r].audits[i].call.remark, text)

\* the table errors holds a row of the kind whose remark holds the text
Stored(kind, text) ==
    \E i \in 1..Len(errors) :
        /\ errors[i].error_type = kind
        /\ Contains(errors[i].remark, text)

\* C14: an answered request whose store query failed with an error other
\* than no-row carries no error text of the store in its response: on the
\* web channel it has status 500 and the fixed internal-error message, and
\* logError was called with VERIFY_DB_ERROR and the error text, whose row
\* is in the table errors unless that insert failed; on the telephony
\* channel it has the no-match document, and the error text went to
\* logError only.
C14_StoreErrorNotLeaked ==
    \A r \in ReqIds :
        (Done(r) /\ reqs[r].err = "other") =>
            /\ NoErrorDetail(r)
            /\ Web(r) =>
                   /\ reqs[r].resp.status = 500
                   /\ reqs[r].resp.body = <<"Internal server error", "\n">>
                   /\ Logged(r, "VERIFY_DB_ERROR", <<"driver: bad connection">>)
                   /\ (\A i \in 1..Len(reqs[r].audits) : reqs[r].audits[i].ok) =>
                          Stored("VERIFY_DB_ERROR", <<"driver: bad connection">>)
            /\ Twilio(r) =>
                   /\ SaysNoMatch(r)
                   /\ Logged(r, "TWILIO_DB_ERROR", <<"driver: bad connection">>)

\* a failed store query has been answered on each channel, the web one
\* with its audit row stored
C14_Witness ==
    \E r1, r2 \in ReqIds :
        /\ Done(r1) /\ Web(r1) /\ reqs[r1].err = "other"
        /\ Stored("VERIFY_DB_ERROR", <<"driver: bad connection">>)
        /\ Done(r2) /\ Twilio(r2) /\ reqs[r2].err = "other"

\* the fields of sel that carry a value
Filled(sel) == {i \in 1..4 : sel[i] = "value"}

\* the first field, in the order Digits, digits, SpeechResult,
\* speechresult, that carries a value
FirstFilled(sel) == CHOOSE i \in Filled(sel) : \A j \in Filled(sel) : i <= j

\* what the extraction of a form has to yield: the value found, or the
\* event kind of the failure
Extraction(c) ==
    IF Filled(c.direct) # {}
    THEN [kind |-> "", value |-> DirectValues[FirstFilled(c.direct)]]
    ELSE IF c.body \in {"none", "empty"}
    THEN [kind |-> "TWILIO_NO_INPUT", value |-> <<>>]
    ELSE IF c.body = "bad"
    THEN [kind |-> "TWILIO_INVALID_BODY", value |-> <<>>]
    ELSE IF Filled(c.nested) # {}
    THEN [kind |-> "", value |-> NestedValues[FirstFilled(c.nested)]]
    ELSE [kind |-> "TWILIO_NO_INPUT", value |-> <<>>]

\* the forms of each raw request body
CasesOfRaw ==
    [raw \in {FieldRaws[c] : c \in FieldCases} |->
        {c \in FieldCases : FieldRaws[c] = raw}]

\* what the extraction of each raw request body has to yield
Extractions == [raw \in DOMAIN CasesOfRaw |-> {Extraction(c) : c \in CasesOfRaw[raw]}]

\* the kinds of the logError calls request r has made or is about to make
KindsOf(r) ==
    [i \in 1..Len(reqs[r].audits) |-> reqs[r].audits[i].call.error_type]
        \o [i \in 1..Len(reqs[r].toLog) |-> reqs[r].toLog[i].error_type]

\* C15: for a telephony request built from the four direct fields (each
\* absent, empty or filled) and a body field (absent, empty, unparseable,
\* or a query string with or without a leading question mark): the input
\* extracted is the value of the first filled direct field in the order
\* Digits, digits, SpeechResult, speechresult; the nested body decides only
\* when no direct field is filled, and then by the same order; when nothing
\* is found the only logError call is TWILIO_NO_INPUT, when the nested body
\* cannot be parsed it is TWILIO_INVALID_BODY, and both are answered
\* without a query to the store.
C15_ExtractionOrder ==
    (reqs[2].chan = "none" /\ Extracted(1)) =>
        \A x \in Extractions[reqs[1].raw] :
            IF x.kind = ""
            THEN /\ reqs[1].input = x.value
                 /\ reqs[1].branch \notin ExtractionFailures
                 /\ \A i \in 1..Len(KindsOf(1)) : KindsOf(1)[i] \notin ExtractionFailures
            ELSE /\ reqs[1].branch = x.kind
                 /\ KindsOf(1) = <<x.kind>>
                 /\ reqs[1].queries = <<>>
                 /\ reqs[1].pc # "query"

\* a request whose direct fields are empty or absent and whose nested body,
\* after a question mark, fills only SpeechResult and speechresult has its
\* input taken from the nested SpeechResult
C15_Witness ==
    /\ reqs[2].chan = "none"
    /\ Done(1)
    /\ \E c \in CasesOfRaw[reqs[1].raw] :
           /\ c.direct[2] = "empty" /\ c.direct[3] = "absent"
           /\ c.body = "question"
           /\ Filled(c.nested) = {3, 4}
    /\ reqs[1].input = NestedValues[3]

\* the raw bodies of the requests of WhiteInit
WhiteRaws == {FormEncode(<<<<kDigits, y>>>>) : y \in WhiteValues}

\* request r was rejected by the format check
RejectedFormat(r) == reqs[r].branch = "TWILIO_INVALID_INPUT"

\* C16: a telephony request whose value is 12 and one whose value is 12
\* with spaces, tabs or newlines before, between or after the digits
\* normalize to the same identifier: once both are answered they hold the
\* same identifier, got the same verdict of the format check and sent the
\* same query to the store.
C16_WhitespaceStripped ==
    ( /\ reqs[1].raw = Param(kDigits, <<"1", "2">>)
      /\ reqs[2].raw \in WhiteRaws
      /\ Done(1) /\ Done(2) ) =>
        /\ reqs[2].input = reqs[1].input
        /\ RejectedFormat(2) <=> RejectedFormat(1)
        /\ reqs[2].queries = reqs[1].queries

\* the kinds of the logError calls request r has made
KindsLogged(r) == {reqs[r].audits[i].call.error_type : i \in 1..Len(reqs[r].audits)}

\* C17: an answered telephony request whose query the store answered with
\* no row has logged TWILIO_NO_MATCH and has not logged TWILIO_DB_ERROR;
\* TWILIO_DB_ERROR is logged only by a request whose query failed.
C17_TypedOutcomes ==
    \A r \in ReqIds :
        (Done(r) /\ Twilio(r)) =>
            /\ reqs[r].err = "ErrNoRows" =>
                   /\ "TWILIO_NO_MATCH" \in KindsLogged(r)
                   /\ "TWILIO_DB_ERROR" \notin KindsLogged(r)
            /\ "TWILIO_DB_ERROR" \in KindsLogged(r) => reqs[r].err = "other"

\* C18: no step of any request on either channel changes the table people,
\* which stays what it was at the start; and every step leaves the rows of
\* the table errors written so far unchanged and in place, new rows being
\* added only at the end.
C18_ReadOnlyStoreAppendOnlyAudit ==
    [][ /\ people' = people
        /\ Len(errors') >= Len(errors)
        /\ SubSeq(errors', 1, Len(errors)) = errors ]_vars

\* a web request and a telephony request have both been answered, each
\* has a row in the table errors, and the table people is as at the start
C18_Witness ==
    /\ people = InitialPeople
    /\ Len(errors) >= 2
    /\ \E r1, r2 \in ReqIds :
           /\ Done(r1) /\ Web(r1) /\ \E i \in 1..Len(reqs[r1].audits) : reqs[r1].audits[i].ok
           /\ Done(r2) /\ Twilio(r2) /\ \E i \in 1..Len(reqs[r2].audits) : reqs[r2].audits[i].ok

\* the answers the store can give to a query that matches the rows `rows`
StoreAnswers(rows) ==
    {[err |-> "other", row |-> NoRow]}
        \cup (IF rows = {} THEN {[err |-> "ErrNoRows", row |-> NoRow]}
              ELSE {[err |-> "nil", row |-> p] : p \in rows})

\* no query was sent
NoAnswer == [err |-> "", row |-> NoRow]

\* verifyHandler run alone on a raw query string against the rows at
\* start: the response for each answer the store can give
AloneWeb(raw) ==
    LET id == QueryId(raw)
    IN  IF id = <<>>
        THEN [a \in {NoAnswer} |-> VerifyResponse("VERIFY_NO_ID", id, NoRow)]
        ELSE IF InvalidFormat(id)
        THEN [a \in {NoAnswer} |-> VerifyResponse("VERIFY_INVALID_ID", id, NoRow)]
        ELSE [a \in StoreAnswers(ExactRows(InitialPeople, id)) |->
                  VerifyResponse(VerifyBranch(a.err), id, a.row)]

\* twilioVerifyHandler run alone on a raw body against the rows at start
AloneTwilio(raw) ==
    LET x == ExtractInput(raw)
        input == RemoveSpaces(x.input)
    IN  IF x.branch # ""
        THEN [a \in {NoAnswer} |-> TwilioResponse(x.branch, x.input, NoRow)]
        ELSE IF InvalidFormat(input)
        THEN [a \in {NoAnswer} |-> TwilioResponse("TWILIO_INVALID_INPUT", input, NoRow)]
        ELSE [a \in StoreAnswers(LikeRows(InitialPeople, input)) |->
                  TwilioResponse(TwilioBranch(a.err), input, a.row)]

\* the responses of the concurrent requests when each is run alone
AloneWebTable == [raw \in ConcWebQueries |-> AloneWeb(raw)]

AloneTwilioTable == [raw \in ConcTwilioBodies |-> AloneTwilio(raw)]

\* the row a logError call of request r puts into the table errors
RowOf(a) ==
    [error_type |-> a.call.error_type, remark |-> InsertedRemark(tzLoaded, a.call.remark)]

\* the audits of request r whose insert was done
DoneInserts(r) == {i \in 1..Len(reqs[r].audits) : reqs[r].audits[i].ok}

\* how many inserts of all requests put the row v into the table errors
InsertsOf(v) ==
    Cardinality(UNION { {<<r, i>> : i \in {j \in DoneInserts(r) : RowOf(reqs[r].audits[j]) = v}} :
                            r \in ReqIds })

\* how often the table errors holds the row v
RowsEqualTo(v) == Cardinality({i \in 1..Len(errors) : errors[i] = v})

\* C19: with requests of both channels arriving at any time and their
\* steps interleaved in every way, an answered request has the response
\* its handler gives when run alone on the same raw request with the same
\* answer of the store, and that answer is one the store can give to the
\* request's own identifier; every row a request has inserted is in the
\* table errors, as often as it was inserted by all requests together, the
\* table holds no other row, and the rows of one request are in the order
\* of its calls.
C19_RequestsIndependent ==
    /\ \A r \in ReqIds :
           Done(r) =>
               LET alone == IF Web(r) THEN AloneWebTable[reqs[r].raw]
                            ELSE AloneTwilioTable[reqs[r].raw]
                   answer == [err |-> reqs[r].err, row |-> reqs[r].row]
               IN  /\ answer \in DOMAIN alone
                   /\ reqs[r].resp = alone[answer]
    /\ \A i \in 1..Len(errors) : RowsEqualTo(errors[i]) = InsertsOf(errors[i])
    /\ \A r \in ReqIds : \A i \in DoneInserts(r) :
           /\ RowsEqualTo(RowOf(reqs[r].audits[i])) = InsertsOf(RowOf(reqs[r].audits[i]))
           /\ \A j \in DoneInserts(r) :
                  i < j => \E p, q \in 1..Len(errors) :
                               /\ p < q
                               /\ errors[p] = RowOf(reqs[r].audits[i])
                               /\ errors[q] = RowOf(reqs[r].audits[j])

\* a telephony request whose query failed and a web request have both been
\* answered, and the web request's row lies between the two rows of the
\* telephony request in the table errors
C19_Witness ==
    \E r1, r2 \in ReqIds :
        /\ Done(r1) /\ Twilio(r1) /\ reqs[r1].err = "other"
        /\ Done(r2) /\ Web(r2)
        /\ Len(errors) = 3
        /\ errors[1].error_type = "TWILIO_DB_ERROR"
        /\ errors[2] = RowOf(reqs[r2].audits[1])
        /\ errors[3].error_type = "TWILIO_NO_MATCH"

\* how many elements of s start a course item
CourseItems(s) ==
    Cardinality({i \in 1..Len(s) : s[i] \in {CourseList[k] : k \in 1..Len(CourseList)}})

\* the body is the fragment of a student: the 14 course items and the
\* approved marker, and no remarks
StudentFragment(body) ==
    /\ CourseItems(body) = 14
    /\ \E i \in 1..Len(body) : body[i] = "<strong>APPROVED AND VERIFIED:</strong> YES"
    /\ \A i \in 1..Len(body) : body[i] # "<strong>REMARKS:</strong><br>"

\* the body is the fragment of a staff member: identifier, name and the
\* remark, and no course item
StaffFragment(body, remark) ==
    /\ CourseItems(body) = 0
    /\ Contains(body, <<"<strong>REMARKS:</strong><br>">> \o remark \o <<"</div>">>)

\* request r is a telephony request answered with the document of a hit
TwilioHit(r) ==
    /\ Done(r) /\ Twilio(r)
    /\ \E i \in 1..Len(reqs[r].resp.body) : reqs[r].resp.body[i] = ". The category is "

\* the spoken category of the document of a hit
SpokenCategory(body) == body[PosOf(body, ". The category is ") + 1]

\* C20: the category of the resolved record selects the template: a
\* student gets the fragment with the 14 course items and the approved
\* marker on the web channel and the spoken category "student" on the
\* telephony channel, a staff member gets identifier, name and remark and
\* the spoken category "staff member"; and a record of any other category
\* is rendered with none of these templates on either channel.
C20_CategorySelectsTemplate ==
    \A r \in ReqIds :
        LET category == reqs[r].row.category
            body == reqs[r].resp.body
        IN  /\ WebHit(r) =>
                   /\ category = "student" => StudentFragment(body)
                   /\ category = "staff" => StaffFragment(body, reqs[r].row.remark)
                   /\ category \in {"student", "staff"}
            /\ TwilioHit(r) =>
                   /\ category = "student" => SpokenCategory(body) = "student"
                   /\ category = "staff" => SpokenCategory(body) = "staff member"
                   /\ category \in {"student", "staff"}

====
